---- MODULE Spec2Model ----
(***************************************************************************)
(* Contribution lifecycle of erold.guide: the contributions API lambda     *)
(* (src/infra/lambda/contributions/index.mjs) and the AI reviewer lambda   *)
(* (src/infra/lambda/ai-reviewer/index.mjs) over their shared DynamoDB     *)
(* table and S3 buckets.  Every handler is cut at its awaited store        *)
(* operations: one action applies one store operation together with the    *)
(* local computation that follows it up to the next awaited operation.     *)
(***************************************************************************)
EXTENDS Integers, Sequences, FiniteSets, Bags, TLC

(* ---------------------------------------------------------------- bounds *)

\* number of API requests that get past their guards in one behaviour; a
\* request that a guard turns down changes no state: it is a stuttering step,
\* and its response is the value of the guards operator of its handler
MaxCalls == 2

\* API requests that may be in flight at the same time
Procs == {"p1", "p2"}

\* readings of the clock
MaxClock == 3

(* ---------------------------------------------------------------- values *)

\* JavaScript null / undefined (an attribute that is absent or set to null)
Null == [null |-> TRUE]

\* authenticated users as carried by the JWT (sub, username)
alice == [sub |-> "1001", username |-> "alice"]
mod == [sub |-> "2002", username |-> "mod"]
Users == {alice, mod}

\* process.env.ADMIN_USERS, split on ","
ADMIN_USERS == {"mod"}

\* isAdmin answering yes for every signed-in user
isAdminAnyUser(user) == user.username # ""

isAdmin(user) == user.username \in ADMIN_USERS

Digits == {"0", "1", "2", "3", "4", "5", "6", "7", "8", "9"}
Lower == {"a", "b", "c", "d", "e", "f", "g", "h", "i", "j", "k", "l", "m",
          "n", "o", "p", "q", "r", "s", "t", "u", "v", "w", "x", "y", "z"}

\* /^[a-z0-9-]+$/ on a string given as its sequence of characters
SlugRegex(s) ==
    /\ Len(s) >= 1
    /\ \A i \in 1..Len(s) : s[i] \in Lower \cup Digits \cup {"-"}

\* number of leading digits of s from position i
RECURSIVE DigitRun(_, _)
DigitRun(s, i) ==
    IF i <= Len(s) /\ s[i] \in Digits THEN 1 + DigitRun(s, i + 1) ELSE 0

\* /^\d+\.\d+\.\d+$/ on a string given as its sequence of characters
SemverRegex(s) ==
    LET a == DigitRun(s, 1)
        b == DigitRun(s, a + 2)
        c == DigitRun(s, a + b + 3)
    IN  /\ a >= 1 /\ b >= 1 /\ c >= 1
        /\ Len(s) = a + b + c + 2
        /\ s[a + 1] = "." /\ s[a + b + 2] = "."

TitleLenMin == 5
TitleLenMax == 100
DescriptionLenMin == 20
DescriptionLenMax == 300
TagsMin == 1
TagsMax == 10
ContentLenMin == 100
Difficulties == {"beginner", "intermediate", "advanced"}

\* validateGuideline with the check of the title left out
validateGuidelineNoTitle(data) ==
    (IF data.slug = <<>> \/ ~SlugRegex(data.slug) THEN <<"slug">> ELSE <<>>)
    \o (IF data.version = <<>> \/ ~SemverRegex(data.version) THEN <<"version">> ELSE <<>>)
    \o (IF data.description = "" \/ Len(data.description) < DescriptionLenMin
           \/ Len(data.description) > DescriptionLenMax
        THEN <<"description">> ELSE <<>>)
    \o (IF Len(data.tags) < TagsMin \/ Len(data.tags) > TagsMax THEN <<"tags">> ELSE <<>>)
    \o (IF data.difficulty \notin Difficulties THEN <<"difficulty">> ELSE <<>>)
    \o (IF data.content = "" \/ Len(data.content) < ContentLenMin THEN <<"content">> ELSE <<>>)

\* validateGuideline returning at the first failing field
validateGuidelineFirstOnly(data) ==
    IF data.title = "" \/ Len(data.title) < TitleLenMin \/ Len(data.title) > TitleLenMax
      THEN <<"title">>
    ELSE IF data.slug = <<>> \/ ~SlugRegex(data.slug) THEN <<"slug">>
    ELSE IF data.version = <<>> \/ ~SemverRegex(data.version) THEN <<"version">>
    ELSE IF data.description = "" \/ Len(data.description) < DescriptionLenMin
             \/ Len(data.description) > DescriptionLenMax
      THEN <<"description">>
    ELSE IF Len(data.tags) < TagsMin \/ Len(data.tags) > TagsMax THEN <<"tags">>
    ELSE IF data.difficulty \notin Difficulties THEN <<"difficulty">>
    ELSE IF data.content = "" \/ Len(data.content) < ContentLenMin THEN <<"content">>
    ELSE <<>>

\* validateGuideline: the list of field errors, in the order the checks run
validateGuideline(data) ==
    (IF data.title = "" \/ Len(data.title) < TitleLenMin \/ Len(data.title) > TitleLenMax
        THEN <<"title">> ELSE <<>>)
    \o (IF data.slug = <<>> \/ ~SlugRegex(data.slug) THEN <<"slug">> ELSE <<>>)
    \o (IF data.version = <<>> \/ ~SemverRegex(data.version) THEN <<"version">> ELSE <<>>)
    \o (IF data.description = "" \/ Len(data.description) < DescriptionLenMin
           \/ Len(data.description) > DescriptionLenMax
        THEN <<"description">> ELSE <<>>)
    \o (IF Len(data.tags) < TagsMin \/ Len(data.tags) > TagsMax THEN <<"tags">> ELSE <<>>)
    \o (IF data.difficulty \notin Difficulties THEN <<"difficulty">> ELSE <<>>)
    \o (IF data.content = "" \/ Len(data.content) < ContentLenMin THEN <<"content">> ELSE <<>>)

(* ---------------------------------------------------------------- inputs *)

ContentV1 == "Server actions are public endpoints. Validate every argument with a schema before touching the database."
ContentV2 == "Server actions are public HTTP endpoints: parse all arguments with zod and reject anything that fails to parse."

GuidelineCsrf ==
    [title |-> "Validate server actions",
     slug |-> <<"c", "s", "r", "f">>,
     version |-> <<"1", ".", "0", ".", "0">>,
     description |-> "Validate the input of every server action.",
     tags |-> <<"security">>,
     difficulty |-> "beginner",
     content |-> ContentV1]

\* the same guideline with a reworked title and text
GuidelineCsrfV2 ==
    [GuidelineCsrf EXCEPT !.title = "Validate every server action", !.content = ContentV2]

\* a guideline under another slug
GuidelineXss == [GuidelineCsrf EXCEPT !.slug = <<"x", "s", "s">>]

\* a guideline whose title has 3 characters
GuidelineShortTitle == [GuidelineCsrf EXCEPT !.title = "CSR"]

Guidelines == {GuidelineCsrf, GuidelineCsrfV2, GuidelineShortTitle}

\* request bodies of POST/PUT /v1/contributions
Bodies ==
    {[framework |-> "nextjs", category |-> "security", guideline |-> g] : g \in Guidelines}

\* a body of PUT /v1/contributions/{id} that names another framework
ReclassifiedBody ==
    [framework |-> "react", category |-> "security", guideline |-> GuidelineCsrf]

ReviseBodies == Bodies \cup {ReclassifiedBody}

\* bodies of POST /v1/contributions that lack the framework or the category
BodiesMissingField ==
    {[framework |-> "", category |-> "security", guideline |-> GuidelineCsrf],
     [framework |-> "nextjs", category |-> "", guideline |-> GuidelineCsrf]}

SubmitBodies == Bodies \cup BodiesMissingField

\* the fields validateGuideline checks
Fields == {"title", "slug", "version", "description", "tags", "difficulty", "content"}

\* values that fail the check of a field: variant 1 is missing, empty or too
\* short, variant 2 is too long or malformed
Variants == {1, 2}
TitleTooLong == "Validate server actions Validate server actions Validate server actions Validate server actions Valid"
DescriptionTooLong == "Validate the input of every server action. Validate the input of every server action. Validate the input of every server action. Validate the input of every server action. Validate the input of every server action. Validate the input of every server action. Validate the input of every server action. "
Broken(f, v) ==
    CASE f = "title" -> IF v = 1 THEN "CSR" ELSE TitleTooLong
      [] f = "slug" -> IF v = 1 THEN <<>> ELSE <<"C", "s", "r", "f">>
      [] f = "version" -> IF v = 1 THEN <<"1", ".", "0">> ELSE <<"v", "1", ".", "0", ".", "0">>
      [] f = "description" -> IF v = 1 THEN "Too short." ELSE DescriptionTooLong
      [] f = "tags" -> IF v = 1 THEN <<>> ELSE [i \in 1..(TagsMax + 1) |-> "security"]
      [] f = "difficulty" -> IF v = 1 THEN "" ELSE "expert"
      [] f = "content" -> IF v = 1 THEN "" ELSE "Validate every argument."

\* GuidelineCsrf with the fields of F replaced by failing values
Payload(F, v) == [f \in Fields |-> IF f \in F THEN Broken(f, v) ELSE GuidelineCsrf[f]]

\* bodies of POST /v1/contributions for every set of failing fields
ValidationBodies ==
    {[framework |-> "nextjs", category |-> "security", guideline |-> Payload(F, v)] :
        F \in SUBSET Fields, v \in Variants}

\* request bodies of the admin reject / request-changes routes
Reasons == {"", "spam"}
Feedbacks == {"", "please add an example"}

\* the decisions the reviewer model is asked to answer with, and an answer
\* that is none of them
Decisions == {"approve", "needs_changes", "reject", "escalate"}

(* ----------------------------------------------------------------- state *)

VARIABLES
    table,            \* DynamoDB TABLE_NAME: pk -> item
    bucket,           \* S3 BUCKET_NAME (pending): contribution id -> guideline.json
    guidelinesBucket, \* S3 GUIDELINES_BUCKET: path -> markdown document
    websiteBucket,    \* S3 WEBSITE_BUCKET: path -> html page
    calls,            \* the API requests in flight, one per process
    runs,             \* the asynchronous invocations of the AI reviewer in flight (a bag)
    response,         \* the last response to a request that got past its guards
    reviewerResponse, \* what the handler of the AI reviewer returned last
    nCalls,           \* API requests accepted so far
    clock             \* the wall clock read by new Date(); Tick advances it

vars ==
    <<table, bucket, guidelinesBucket, websiteBucket, calls, runs, response,
      reviewerResponse, nCalls, clock>>

stores == <<table, bucket, guidelinesBucket, websiteBucket>>

(* --------------------------------------------------------- store helpers *)

EmptyMap == [k \in {} |-> Null]

\* PutCommand / PutObjectCommand: the whole value under the key is replaced
Put(map, key, val) ==
    [k \in DOMAIN map \cup {key} |-> IF k = key THEN val ELSE map[k]]

\* GetCommand / GetObjectCommand: the value, or Null when the key is absent
Get(map, key) == IF key \in DOMAIN map THEN map[key] ELSE Null

\* UpdateCommand with "SET a = :a, ...": the named attributes are written,
\* the others are kept; the item is created when it does not exist
Update(map, key, attrs) ==
    LET old == IF key \in DOMAIN map THEN map[key] ELSE [pk |-> key, sk |-> "META"]
        new == [a \in DOMAIN old \cup DOMAIN attrs |->
                    IF a \in DOMAIN attrs THEN attrs[a] ELSE old[a]]
    IN  Put(map, key, new)

\* an attribute of an item, undefined (Null) when the item does not have it
Attr(item, a) == IF a \in DOMAIN item THEN item[a] ELSE Null

\* the query with the sort key compared to the slug alone
QuerySlugOnly(pk, sk) ==
    {k \in DOMAIN table : table[k].gsi1pk = pk /\ table[k].gsi1sk = <<sk[2]>>}

\* the query matching also the contribution records that hold the framework,
\* category and slug asked for
QueryAlsoContributions(pk, sk) ==
    {k \in DOMAIN table :
        \/ table[k].gsi1pk = pk /\ table[k].gsi1sk = sk
        \/ /\ k[1] = "CONTRIB"
           /\ table[k].framework = pk[2]
           /\ table[k].category = sk[1]
           /\ table[k].slug = sk[2]}

\* QueryCommand on index gsi1 with "gsi1pk = :pk AND gsi1sk = :sk"
Query(pk, sk) ==
    {k \in DOMAIN table : table[k].gsi1pk = pk /\ table[k].gsi1sk = sk}

ContribKey(id) == <<"CONTRIB", id>>
GuidelineKey(framework, category, slug) == <<"GUIDELINE", framework, category, slug>>

\* `guidelines/${framework}/${category}/${guideline.slug}.md`
guidelinePath(framework, category, slug) == <<"guidelines", framework, category, slug, ".md">>
\* `guidelines/${framework}/${category}/${guideline.slug}/index.html`
htmlPath(framework, category, slug) == <<"guidelines", framework, category, slug, "index.html">>

(* ---------------------------------------------------------- call helpers *)

Idle == [pc |-> "idle"]

\* the response helpers json(statusCode, body) and error(statusCode, code, ..)
json(statusCode) == [statusCode |-> statusCode, code |-> "OK", details |-> <<>>]
error(statusCode, code) == [statusCode |-> statusCode, code |-> code, details |-> <<>>]
errorDetails(statusCode, code, details) == [statusCode |-> statusCode, code |-> code, details |-> details]

\* error(400, "INVALID_STATE", message): the body carries the message, a string
\* literal of the handler
InvalidStateError(message) ==
    [statusCode |-> 400, code |-> "INVALID_STATE", details |-> <<>>, message |-> message]

\* the catch block of handler: any thrown error becomes a 500
InternalError == error(500, "INTERNAL_ERROR")

Free(p) == calls[p].pc = "idle"

\* a request past its guards: existing is the item its GetCommand returned
NewCall(op, user, id, body, existing, pc) ==
    [op |-> op, user |-> user, id |-> id, body |-> body, pc |-> pc,
     existing |-> existing, content |-> Null, now |-> 0]

\* what a guards operator yields when no guard turns the request down
Passed == [statusCode |-> 0, code |-> "PASSED", details |-> <<>>]

\* the request in process p returns res
Return(p, res) ==
    /\ response' = res
    /\ calls' = [calls EXCEPT ![p] = Idle]

At(p, op, pc) == calls[p].pc = pc /\ calls[p].op = op

Init ==
    /\ table = EmptyMap
    /\ bucket = EmptyMap
    /\ guidelinesBucket = EmptyMap
    /\ websiteBucket = EmptyMap
    /\ calls = [p \in Procs |-> Idle]
    /\ runs = EmptyBag
    /\ response = Null
    /\ reviewerResponse = Null
    /\ nCalls = 0
    /\ clock = 1

(* ------------------------------------------------- POST /v1/contributions *)

\* the event payload { contributionId } of an invocation, before it runs
NewRun(id) ==
    [contributionId |-> id, pc |-> "queued", meta |-> Null, content |-> Null,
     review |-> Null, newStatus |-> "", now |-> 0]

\* lambda.send(InvokeCommand, InvocationType "Event"): the invocation is
\* queued and the handler returns
InvokeReviewer(p, statusCode) ==
    /\ runs' = runs (+) SetToBag({NewRun(calls[p].id)})
    /\ Return(p, json(statusCode))
    /\ UNCHANGED <<stores, nCalls, clock, reviewerResponse>>

\* the send throws with no try/catch around it: handler's catch block answers
\* 500
InvokeThrowsUncaught(p, statusCode) ==
    /\ Return(p, error(500, "INTERNAL_ERROR"))
    /\ UNCHANGED <<stores, runs, nCalls, clock, reviewerResponse>>

\* the send throws inside try/catch: the error is logged and the handler
\* returns the same response
InvokeThrows(p, statusCode) ==
    /\ Return(p, json(statusCode))
    /\ UNCHANGED <<stores, runs, nCalls, clock, reviewerResponse>>

\* an awaited store operation of the request in process p throws: handler's
\* catch block answers 500 and nothing more is done
Throws(p) ==
    /\ Return(p, InternalError)
    /\ UNCHANGED <<stores, runs, nCalls, clock, reviewerResponse>>

\* the early returns of createContribution: field checks and duplicate query
createContributionGuards(user, body) ==
    LET validationErrors == validateGuideline(body.guideline)
        existing == Query(<<"FRAMEWORK", body.framework>>,
                          <<body.category, body.guideline.slug>>)
    IN  IF body.framework = "" \/ body.category = ""
          THEN error(400, "VALIDATION_ERROR")
        ELSE IF Len(validationErrors) > 0
          THEN errorDetails(400, "VALIDATION_ERROR", validationErrors)
        ELSE IF Cardinality(existing) > 0
          THEN error(409, "DUPLICATE_ERROR")
        ELSE Passed

\* createContribution returning early: the error is the response, nothing is
\* written
createContributionRefuses(user, body) ==
    /\ createContributionGuards(user, body) # Passed
    /\ response' = createContributionGuards(user, body)
    /\ UNCHANGED <<stores, calls, runs, nCalls, clock, reviewerResponse>>

\* the ids given out so far: those stored, and those of the requests in flight
UsedIds ==
    DOMAIN bucket \cup {calls[p].id : p \in {q \in Procs : calls[q].pc # "idle"}}

\* `contrib_${crypto.randomBytes(8).toString("hex")}`: an id not yet in use
FreshId == CHOOSE id \in 1..(Cardinality(UsedIds) + 1) : id \notin UsedIds

\* createContribution up to the S3 put: the guards, then id and now
createContribution(p, user, body) ==
    /\ Free(p)
    /\ createContributionGuards(user, body) = Passed
    /\ nCalls < MaxCalls
    /\ nCalls' = nCalls + 1
    /\ calls' = [calls EXCEPT ![p] =
         [NewCall("createContribution", user, FreshId, body, Null, "putObject")
            EXCEPT !.now = clock]]
    /\ UNCHANGED <<stores, runs, response, clock, reviewerResponse>>

\* createContribution going on to the PutCommand with no payload written
createPutObjectSkipped(p) ==
    /\ At(p, "createContribution", "putObject")
    /\ calls' = [calls EXCEPT ![p].pc = "putItem"]
    /\ UNCHANGED <<stores, runs, response, nCalls, clock, reviewerResponse>>

\* the PutObjectCommand of createContribution (see the Throws action for its failure)
createPutObject(p) ==
    /\ At(p, "createContribution", "putObject")
    /\ bucket' = Put(bucket, calls[p].id, calls[p].body)
    /\ calls' = [calls EXCEPT ![p].pc = "putItem"]
    /\ UNCHANGED <<table, guidelinesBucket, websiteBucket, runs, response, nCalls, clock, reviewerResponse>>

createPutObjectThrows(p) == At(p, "createContribution", "putObject") /\ Throws(p)

\* the item written by createContribution
NewItem(id, user, body, now) ==
    [pk |-> ContribKey(id), sk |-> "META",
     gsi1pk |-> <<"USER", user.sub>>, gsi1sk |-> now,
     id |-> id, status |-> "pending",
     framework |-> body.framework, category |-> body.category,
     slug |-> body.guideline.slug, title |-> body.guideline.title,
     contributor |-> [githubId |-> user.sub, username |-> user.username],
     createdAt |-> now, updatedAt |-> now, review |-> Null]

\* the PutCommand of createContribution (see the Throws action for its failure)
createPutItem(p) ==
    /\ At(p, "createContribution", "putItem")
    /\ table' = Put(table, ContribKey(calls[p].id),
                     NewItem(calls[p].id, calls[p].user, calls[p].body, calls[p].now))
    /\ calls' = [calls EXCEPT ![p].pc = "invoke"]
    /\ UNCHANGED <<bucket, guidelinesBucket, websiteBucket, runs, response, nCalls, clock, reviewerResponse>>

createPutItemThrows(p) == At(p, "createContribution", "putItem") /\ Throws(p)

\* the reviewer trigger of createContribution and the 201 response
createInvoke(p) ==
    /\ At(p, "createContribution", "invoke")
    /\ InvokeReviewer(p, 201)

createInvokeThrows(p) == At(p, "createContribution", "invoke") /\ InvokeThrows(p, 201)

(* ---------------------- GET /v1/contributions and /v1/contributions/{id} *)

\* getContribution: the record of the caller's own contribution together
\* with the guideline of its payload; it writes nothing
getContribution(user, id) ==
    LET result == Get(table, ContribKey(id))
        content == Get(bucket, id)
    IN  IF result = Null
          THEN error(404, "NOT_FOUND")
        ELSE IF result.contributor.githubId # user.sub
          THEN error(403, "FORBIDDEN")
        ELSE IF content = Null
          THEN InternalError
        ELSE [statusCode |-> 200, code |-> "OK", details |-> <<>>,
              body |-> [Item |-> result, guideline |-> content.guideline]]

\* listContributions: the items of index gsi1 under USER#sub, each cut down to
\* the listed attributes (the order of the list is left out); it writes nothing
listContributions(user) ==
    {[id |-> table[k].id, status |-> table[k].status,
      framework |-> table[k].framework, category |-> table[k].category,
      title |-> table[k].title, slug |-> table[k].slug,
      createdAt |-> table[k].createdAt, updatedAt |-> table[k].updatedAt,
      review |-> Attr(table[k], "review")] :
        k \in {j \in DOMAIN table : table[j].gsi1pk = <<"USER", user.sub>>}}

(* -------------------------------------------- PUT /v1/contributions/{id} *)

\* the statuses open to updateContribution with ai_approved among them
UpdatableStatusesWithAiApproved ==
    {"pending", "ai_needs_changes", "admin_needs_changes", "ai_approved"}

UpdatableStatuses == {"pending", "ai_needs_changes", "admin_needs_changes"}

\* the early returns of updateContribution with the check of the status moved
\* before the check of the owner
updateContributionGuardsStatusFirst(user, id, body) ==
    LET existing == Get(table, ContribKey(id))
        validationErrors == validateGuideline(body.guideline)
    IN  IF existing = Null
          THEN error(404, "NOT_FOUND")
        ELSE IF existing.status \notin UpdatableStatuses
          THEN InvalidStateError("Can only update pending or needs-changes contributions")
        ELSE IF existing.contributor.githubId # user.sub
          THEN error(403, "FORBIDDEN")
        ELSE IF Len(validationErrors) > 0
          THEN errorDetails(400, "VALIDATION_ERROR", validationErrors)
        ELSE Passed

\* the early returns of updateContribution after its GetCommand
updateContributionGuards(user, id, body) ==
    LET existing == Get(table, ContribKey(id))
        validationErrors == validateGuideline(body.guideline)
    IN  IF existing = Null
          THEN error(404, "NOT_FOUND")
        ELSE IF existing.contributor.githubId # user.sub
          THEN error(403, "FORBIDDEN")
        ELSE IF existing.status \notin UpdatableStatuses
          THEN InvalidStateError("Can only update pending or needs-changes contributions")
        ELSE IF Len(validationErrors) > 0
          THEN errorDetails(400, "VALIDATION_ERROR", validationErrors)
        ELSE Passed

\* updateContribution up to the S3 put: GetCommand and the guards
updateContribution(p, user, id, body) ==
    /\ Free(p)
    /\ updateContributionGuards(user, id, body) = Passed
    /\ nCalls < MaxCalls
    /\ nCalls' = nCalls + 1
    /\ calls' = [calls EXCEPT ![p] =
         NewCall("updateContribution", user, id, body, Get(table, ContribKey(id)), "putObject")]
    /\ UNCHANGED <<stores, runs, response, clock, reviewerResponse>>

\* the PutObjectCommand of updateContribution (see the Throws action for its failure), then now
updatePutObject(p) ==
    /\ At(p, "updateContribution", "putObject")
    /\ bucket' = Put(bucket, calls[p].id, calls[p].body)
    /\ calls' = [calls EXCEPT ![p].pc = "update", ![p].now = clock]
    /\ UNCHANGED <<table, guidelinesBucket, websiteBucket, runs, response, nCalls, clock, reviewerResponse>>

updatePutObjectThrows(p) == At(p, "updateContribution", "putObject") /\ Throws(p)

\* the UpdateCommand of updateContribution (see the Throws action for its failure)
updateUpdate(p) ==
    /\ At(p, "updateContribution", "update")
    /\ table' = Update(table, ContribKey(calls[p].id),
                  [status |-> "pending",
                   title |-> calls[p].body.guideline.title,
                   slug |-> calls[p].body.guideline.slug,
                   updatedAt |-> calls[p].now,
                   review |-> Null,
                   adminReview |-> Null])
    /\ calls' = [calls EXCEPT ![p].pc = "invoke"]
    /\ UNCHANGED <<bucket, guidelinesBucket, websiteBucket, runs, response, nCalls, clock, reviewerResponse>>

updateUpdateThrows(p) == At(p, "updateContribution", "update") /\ Throws(p)

\* the reviewer trigger of updateContribution and the 200 response
updateInvoke(p) ==
    /\ At(p, "updateContribution", "invoke")
    /\ InvokeReviewer(p, 200)

updateInvokeThrows(p) == At(p, "updateContribution", "invoke") /\ InvokeThrows(p, 200)

(* ----------------------------------------- DELETE /v1/contributions/{id} *)

WithdrawableStatuses == {"pending", "ai_needs_changes", "ai_approved"}

\* the early returns of deleteContribution with the ownership check waived
\* for admins
deleteContributionGuardsAdminBypass(user, id) ==
    LET existing == Get(table, ContribKey(id))
    IN  IF existing = Null
          THEN error(404, "NOT_FOUND")
        ELSE IF existing.contributor.githubId # user.sub /\ ~isAdmin(user)
          THEN error(403, "FORBIDDEN")
        ELSE IF existing.status \notin WithdrawableStatuses
          THEN InvalidStateError("Cannot withdraw approved or rejected contributions")
        ELSE Passed

\* the early returns of deleteContribution after its GetCommand
deleteContributionGuards(user, id) ==
    LET existing == Get(table, ContribKey(id))
    IN  IF existing = Null
          THEN error(404, "NOT_FOUND")
        ELSE IF existing.contributor.githubId # user.sub
          THEN error(403, "FORBIDDEN")
        ELSE IF existing.status \notin WithdrawableStatuses
          THEN InvalidStateError("Cannot withdraw approved or rejected contributions")
        ELSE Passed

\* deleteContribution up to the update: GetCommand, the guards and now
deleteContribution(p, user, id) ==
    /\ Free(p)
    /\ deleteContributionGuards(user, id) = Passed
    /\ nCalls < MaxCalls
    /\ nCalls' = nCalls + 1
    /\ calls' = [calls EXCEPT ![p] =
         [NewCall("deleteContribution", user, id, Null, Get(table, ContribKey(id)), "update")
            EXCEPT !.now = clock]]
    /\ UNCHANGED <<stores, runs, response, clock, reviewerResponse>>

\* the UpdateCommand of deleteContribution clearing the review as well
deleteUpdateClearsReview(p) ==
    /\ At(p, "deleteContribution", "update")
    /\ table' = Update(table, ContribKey(calls[p].id),
                  [status |-> "withdrawn", updatedAt |-> calls[p].now, review |-> Null])
    /\ Return(p, json(200))
    /\ UNCHANGED <<bucket, guidelinesBucket, websiteBucket, runs, nCalls, clock, reviewerResponse>>

\* the UpdateCommand of deleteContribution (see the Throws action for its failure)
deleteUpdate(p) ==
    /\ At(p, "deleteContribution", "update")
    /\ table' = Update(table, ContribKey(calls[p].id),
                  [status |-> "withdrawn", updatedAt |-> calls[p].now])
    /\ Return(p, json(200))
    /\ UNCHANGED <<bucket, guidelinesBucket, websiteBucket, runs, nCalls, clock, reviewerResponse>>

deleteUpdateThrows(p) == At(p, "deleteContribution", "update") /\ Throws(p)

(* ------------------------- POST /v1/admin/contributions/{id}/approve *)

ApprovableStatuses == {"ai_approved", "pending", "ai_needs_changes"}

\* the list of line 746 with "withdrawn" forgotten
FinalStatusesWithoutWithdrawn == {"approved", "rejected"}

FinalStatuses == {"approved", "rejected", "withdrawn"}

\* the early returns of adminApproveContribution: isAdmin, then the item
adminApproveContributionGuards(user, id) ==
    LET existing == Get(table, ContribKey(id))
    IN  IF ~isAdmin(user)
          THEN error(403, "FORBIDDEN")
        ELSE IF existing = Null
          THEN error(404, "NOT_FOUND")
        ELSE IF existing.status \notin ApprovableStatuses
          THEN InvalidStateError("Can only approve pending or AI-reviewed contributions")
        ELSE Passed

\* adminApproveContribution up to the S3 read: isAdmin, GetCommand, guards
adminApproveContribution(p, user, id) ==
    /\ Free(p)
    /\ adminApproveContributionGuards(user, id) = Passed
    /\ nCalls < MaxCalls
    /\ nCalls' = nCalls + 1
    /\ calls' = [calls EXCEPT ![p] =
         NewCall("adminApproveContribution", user, id, Null, Get(table, ContribKey(id)),
                 "getObject")]
    /\ UNCHANGED <<stores, runs, response, clock, reviewerResponse>>

\* the GetObjectCommand of adminApproveContribution: the stored guideline.json
\* (NoSuchKey is thrown when the object is missing)
approveGetObject(p) ==
    /\ At(p, "adminApproveContribution", "getObject")
    /\ LET content == Get(bucket, calls[p].id)
       IN  IF content = Null
             THEN Return(p, InternalError)
             ELSE /\ calls' = [calls EXCEPT ![p].content = content, ![p].pc = "putMarkdown"]
                  /\ UNCHANGED response
    /\ UNCHANGED <<stores, runs, nCalls, clock, reviewerResponse>>

approveGetObjectThrows(p) == At(p, "adminApproveContribution", "getObject") /\ Throws(p)

\* generateMarkdownFile: front matter and text of the public document
\* (publishedAt, a time stamp of the rendering, is left out)
generateMarkdownFile(framework, category, guideline, contributor) ==
    [framework |-> framework, category |-> category, guideline |-> guideline,
     contributor |-> contributor.username]

\* generateHtmlPage: the static page rendered from the same fields
generateHtmlPage(framework, category, guideline, contributor) ==
    [framework |-> framework, category |-> category, guideline |-> guideline,
     contributor |-> contributor.username]

\* the path the approve request c publishes under
PublishPath(c) ==
    guidelinePath(c.content.framework, c.content.category, c.content.guideline.slug)

\* the PutObjectCommand on GUIDELINES_BUCKET (see the Throws action for its failure)
approvePutMarkdown(p) ==
    /\ At(p, "adminApproveContribution", "putMarkdown")
    /\ LET c == calls[p]
           markdown == generateMarkdownFile(c.content.framework, c.content.category,
                                            c.content.guideline, c.existing.contributor)
       IN  /\ guidelinesBucket' = Put(guidelinesBucket, PublishPath(c),
                                      [Body |-> markdown, contributionId |-> c.id])
           /\ calls' = [calls EXCEPT ![p].pc = "putHtml"]
    /\ UNCHANGED <<table, bucket, websiteBucket, runs, response, nCalls, clock, reviewerResponse>>

approvePutMarkdownThrows(p) == At(p, "adminApproveContribution", "putMarkdown") /\ Throws(p)

\* the PutObjectCommand on WEBSITE_BUCKET; the CloudFront
\* invalidation that follows changes no store and its failure is swallowed;
\* then now is read
approvePutHtml(p) ==
    /\ At(p, "adminApproveContribution", "putHtml")
    /\ LET c == calls[p]
           htmlContent == generateHtmlPage(c.content.framework, c.content.category,
                                           c.content.guideline, c.existing.contributor)
       IN  /\ websiteBucket' = Put(websiteBucket,
                                   htmlPath(c.content.framework, c.content.category,
                                            c.content.guideline.slug),
                                   [Body |-> htmlContent])
           /\ calls' = [calls EXCEPT ![p].pc = "update", ![p].now = clock]
    /\ UNCHANGED <<table, bucket, guidelinesBucket, runs, response, nCalls, clock, reviewerResponse>>

approvePutHtmlThrows(p) == At(p, "adminApproveContribution", "putHtml") /\ Throws(p)

\* the UpdateCommand of adminApproveContribution writing the approving
\* moderator as the contributor
approveUpdateAsContributor(p) ==
    /\ At(p, "adminApproveContribution", "update")
    /\ table' = Update(table, ContribKey(calls[p].id),
                  [status |-> "approved",
                   updatedAt |-> calls[p].now,
                   contributor |-> [githubId |-> calls[p].user.sub,
                                    username |-> calls[p].user.username],
                   approvedAt |-> calls[p].now,
                   publishedPath |-> PublishPath(calls[p])])
    /\ calls' = [calls EXCEPT ![p].pc = "putIndex"]
    /\ UNCHANGED <<bucket, guidelinesBucket, websiteBucket, runs, response, nCalls, clock, reviewerResponse>>

\* the UpdateCommand of adminApproveContribution (see the Throws action for its failure)
approveUpdate(p) ==
    /\ At(p, "adminApproveContribution", "update")
    /\ table' = Update(table, ContribKey(calls[p].id),
                  [status |-> "approved",
                   updatedAt |-> calls[p].now,
                   approvedBy |-> [username |-> calls[p].user.username],
                   approvedAt |-> calls[p].now,
                   publishedPath |-> PublishPath(calls[p])])
    /\ calls' = [calls EXCEPT ![p].pc = "putIndex"]
    /\ UNCHANGED <<bucket, guidelinesBucket, websiteBucket, runs, response, nCalls, clock, reviewerResponse>>

approveUpdateThrows(p) == At(p, "adminApproveContribution", "update") /\ Throws(p)

\* the index entry written by adminApproveContribution
IndexItem(c) ==
    [pk |-> GuidelineKey(c.content.framework, c.content.category, c.content.guideline.slug),
     sk |-> "META",
     gsi1pk |-> <<"FRAMEWORK", c.content.framework>>,
     gsi1sk |-> <<c.content.category, c.content.guideline.slug>>,
     contributionId |-> c.id,
     framework |-> c.content.framework, category |-> c.content.category,
     slug |-> c.content.guideline.slug, title |-> c.content.guideline.title,
     contributor |-> c.existing.contributor,
     publishedAt |-> c.now, publishedPath |-> PublishPath(c)]

\* the PutCommand of the index entry (see the Throws action for its failure) and the 200 response
approvePutIndex(p) ==
    /\ At(p, "adminApproveContribution", "putIndex")
    /\ table' = Put(table, IndexItem(calls[p]).pk, IndexItem(calls[p]))
    /\ Return(p, json(200))
    /\ UNCHANGED <<bucket, guidelinesBucket, websiteBucket, runs, nCalls, clock, reviewerResponse>>

approvePutIndexThrows(p) == At(p, "adminApproveContribution", "putIndex") /\ Throws(p)

(* -------------------------- POST /v1/admin/contributions/{id}/reject *)

\* the early returns of adminRejectContribution: isAdmin, then the item
adminRejectContributionGuards(user, id) ==
    LET existing == Get(table, ContribKey(id))
    IN  IF ~isAdmin(user)
          THEN error(403, "FORBIDDEN")
        ELSE IF existing = Null
          THEN error(404, "NOT_FOUND")
        ELSE IF existing.status \in FinalStatuses
          THEN InvalidStateError("Cannot reject already finalized contributions")
        ELSE Passed

\* adminRejectContribution up to the update: isAdmin, GetCommand, guard, now
adminRejectContribution(p, user, id, reason) ==
    /\ Free(p)
    /\ adminRejectContributionGuards(user, id) = Passed
    /\ nCalls < MaxCalls
    /\ nCalls' = nCalls + 1
    /\ calls' = [calls EXCEPT ![p] =
         [NewCall("adminRejectContribution", user, id, [reason |-> reason],
                  Get(table, ContribKey(id)), "update")
            EXCEPT !.now = clock]]
    /\ UNCHANGED <<stores, runs, response, clock, reviewerResponse>>

\* the UpdateCommand of adminRejectContribution storing the reason as it was
\* sent, an empty one included
rejectUpdateReasonAsSent(p) ==
    /\ At(p, "adminRejectContribution", "update")
    /\ table' = Update(table, ContribKey(calls[p].id),
                  [status |-> "rejected",
                   updatedAt |-> calls[p].now,
                   rejectedBy |-> [username |-> calls[p].user.username],
                   rejectedAt |-> calls[p].now,
                   rejectionReason |-> calls[p].body.reason])
    /\ Return(p, json(200))
    /\ UNCHANGED <<bucket, guidelinesBucket, websiteBucket, runs, nCalls, clock, reviewerResponse>>

\* the UpdateCommand of adminRejectContribution (see the Throws action for its failure)
rejectUpdate(p) ==
    /\ At(p, "adminRejectContribution", "update")
    /\ table' = Update(table, ContribKey(calls[p].id),
                  [status |-> "rejected",
                   updatedAt |-> calls[p].now,
                   rejectedBy |-> [username |-> calls[p].user.username],
                   rejectedAt |-> calls[p].now,
                   rejectionReason |->
                       IF calls[p].body.reason # "" THEN calls[p].body.reason
                       ELSE "Does not meet quality standards"])
    /\ Return(p, json(200))
    /\ UNCHANGED <<bucket, guidelinesBucket, websiteBucket, runs, nCalls, clock, reviewerResponse>>

rejectUpdateThrows(p) == At(p, "adminRejectContribution", "update") /\ Throws(p)

(* ----------------- POST /v1/admin/contributions/{id}/request-changes *)

\* the early returns of adminRequestChanges with the check of the feedback
\* left out
adminRequestChangesGuardsNoFeedback(user, id, feedback) ==
    LET existing == Get(table, ContribKey(id))
    IN  IF ~isAdmin(user)
          THEN error(403, "FORBIDDEN")
        ELSE IF existing = Null
          THEN error(404, "NOT_FOUND")
        ELSE IF existing.status \in FinalStatuses
          THEN InvalidStateError("Cannot request changes for finalized contributions")
        ELSE Passed

\* the early returns of adminRequestChanges: isAdmin, the item, the feedback
adminRequestChangesGuards(user, id, feedback) ==
    LET existing == Get(table, ContribKey(id))
    IN  IF ~isAdmin(user)
          THEN error(403, "FORBIDDEN")
        ELSE IF existing = Null
          THEN error(404, "NOT_FOUND")
        ELSE IF existing.status \in FinalStatuses
          THEN InvalidStateError("Cannot request changes for finalized contributions")
        ELSE IF feedback = ""
          THEN error(400, "VALIDATION_ERROR")
        ELSE Passed

\* adminRequestChanges up to the update: isAdmin, GetCommand, guards, now
adminRequestChanges(p, user, id, feedback) ==
    /\ Free(p)
    /\ adminRequestChangesGuards(user, id, feedback) = Passed
    /\ nCalls < MaxCalls
    /\ nCalls' = nCalls + 1
    /\ calls' = [calls EXCEPT ![p] =
         [NewCall("adminRequestChanges", user, id, [feedback |-> feedback],
                  Get(table, ContribKey(id)), "update")
            EXCEPT !.now = clock]]
    /\ UNCHANGED <<stores, runs, response, clock, reviewerResponse>>

\* the UpdateCommand of adminRequestChanges (see the Throws action for its failure)
requestChangesUpdate(p) ==
    /\ At(p, "adminRequestChanges", "update")
    /\ table' = Update(table, ContribKey(calls[p].id),
                  [status |-> "admin_needs_changes",
                   updatedAt |-> calls[p].now,
                   adminReview |-> [feedback |-> calls[p].body.feedback,
                                    requestedBy |-> [username |-> calls[p].user.username],
                                    requestedAt |-> calls[p].now]])
    /\ Return(p, json(200))
    /\ UNCHANGED <<bucket, guidelinesBucket, websiteBucket, runs, nCalls, clock, reviewerResponse>>

requestChangesUpdateThrows(p) == At(p, "adminRequestChanges", "update") /\ Throws(p)

(* ------------------------------------------------- the AI reviewer lambda *)

\* statusMap[review.decision] || 'ai_needs_changes'
statusMap(decision) ==
    CASE decision = "approve" -> "ai_approved"
      [] decision = "needs_changes" -> "ai_needs_changes"
      [] decision = "reject" -> "ai_rejected"
      [] OTHER -> "ai_needs_changes"

RunAt(r, pc) == BagIn(r, runs) /\ r.pc = pc

\* what handler returns: 200 around the result of reviewContribution (a
\* review, or skipped), 500 around a thrown error
Reviewed == [statusCode |-> 200, skipped |-> FALSE]
Skipped == [statusCode |-> 200, skipped |-> TRUE]
ReviewError == [statusCode |-> 500, skipped |-> FALSE]

\* the invocation r ends: handler returns res
EndRun(r, res) ==
    /\ runs' = runs (-) SetToBag({r})
    /\ reviewerResponse' = res

\* the invocation r moves on as r2
StepRun(r, r2) ==
    /\ runs' = (runs (-) SetToBag({r})) (+) SetToBag({r2})
    /\ UNCHANGED reviewerResponse

\* reviewContribution up to the S3 read: GetCommand and the pending check
reviewContribution(r) ==
    /\ RunAt(r, "queued")
    /\ LET meta == Get(table, ContribKey(r.contributionId))
       IN  IF meta = Null THEN EndRun(r, ReviewError)
           ELSE IF meta.status # "pending" THEN EndRun(r, Skipped)
           ELSE StepRun(r, [r EXCEPT !.pc = "getObject", !.meta = meta])
    /\ UNCHANGED <<stores, calls, response, nCalls, clock>>

\* the GetObjectCommand of reviewContribution (see the Throws action for its failure)
reviewGetObject(r) ==
    /\ RunAt(r, "getObject")
    /\ LET content == Get(bucket, r.contributionId)
       IN  IF content = Null THEN EndRun(r, ReviewError)
           ELSE StepRun(r, [r EXCEPT !.content = content, !.pc = "callClaude"])
    /\ UNCHANGED <<stores, calls, response, nCalls, clock>>

\* callClaudeAPI on the prompt built from the content read, and the parsing of
\* its answer: a review of that content (reviewed stands for the score, checks,
\* issues and feedback, which assess the content of the prompt); then
\* reviewedAt and now are read
reviewCallClaude(r, decision) ==
    /\ RunAt(r, "callClaude")
    /\ StepRun(r, [r EXCEPT !.pc = "update",
                            !.newStatus = statusMap(decision),
                            !.now = clock,
                            !.review = [decision |-> decision,
                                        reviewed |-> r.content,
                                        reviewedAt |-> clock,
                                        reviewedBy |-> "claude-sonnet-4"]])
    /\ UNCHANGED <<stores, calls, response, nCalls, clock>>

\* the UpdateCommand of reviewContribution writing the status without the
\* review
reviewUpdateStatusOnly(r) ==
    /\ RunAt(r, "update")
    /\ table' = Update(table, ContribKey(r.contributionId),
                  [status |-> r.newStatus,
                   updatedAt |-> r.now])
    /\ EndRun(r, Reviewed)
    /\ UNCHANGED <<bucket, guidelinesBucket, websiteBucket, calls, response, nCalls, clock>>

\* the UpdateCommand of reviewContribution (see the Throws action for its failure)
reviewUpdate(r) ==
    /\ RunAt(r, "update")
    /\ table' = Update(table, ContribKey(r.contributionId),
                  [status |-> r.newStatus,
                   review |-> r.review,
                   updatedAt |-> r.now])
    /\ EndRun(r, Reviewed)
    /\ UNCHANGED <<bucket, guidelinesBucket, websiteBucket, calls, response, nCalls, clock>>

\* the failure of the invocation r recorded on the contribution as a review
\* that asks for changes
reviewThrowsMarks(r) ==
    /\ BagIn(r, runs) /\ r.pc \in {"queued", "getObject", "callClaude", "update"}
    /\ table' = Update(table, ContribKey(r.contributionId), [status |-> "ai_needs_changes"])
    /\ EndRun(r, ReviewError)
    /\ UNCHANGED <<bucket, guidelinesBucket, websiteBucket, calls, response, nCalls, clock>>

\* an awaited operation of the invocation r throws (S3, the Claude API or
\* its unparseable answer, DynamoDB): handler's catch block logs the error
reviewThrows(r) ==
    /\ BagIn(r, runs) /\ r.pc \in {"queued", "getObject", "callClaude", "update"}
    /\ EndRun(r, ReviewError)
    /\ UNCHANGED <<stores, calls, response, nCalls, clock>>

(* ------------------------------------------------------------- the clock *)

\* time passes
Tick ==
    /\ clock < MaxClock
    /\ clock' = clock + 1
    /\ UNCHANGED <<stores, calls, runs, response, reviewerResponse, nCalls>>

(* --------------------------------------------------------- specification *)

\* the ids a request may name: those of the stored contributions, and one
\* that does not exist
RequestIds == {k[2] : k \in {k \in DOMAIN table : k[1] = "CONTRIB"}} \cup {0}

Next ==
    \/ \E p \in Procs, user \in Users, body \in SubmitBodies :
          createContribution(p, user, body)
    \/ \E p \in Procs : createPutObject(p)
    \/ \E p \in Procs : createPutItem(p)
    \/ \E p \in Procs : createInvoke(p)
    \/ \E p \in Procs, user \in Users, id \in RequestIds, body \in ReviseBodies :
          updateContribution(p, user, id, body)
    \/ \E p \in Procs : updatePutObject(p)
    \/ \E p \in Procs : updateUpdate(p)
    \/ \E p \in Procs : updateInvoke(p)
    \/ \E p \in Procs, user \in Users, id \in RequestIds : deleteContribution(p, user, id)
    \/ \E p \in Procs : deleteUpdate(p)
    \/ \E p \in Procs, user \in Users, id \in RequestIds : adminApproveContribution(p, user, id)
    \/ \E p \in Procs : approveGetObject(p)
    \/ \E p \in Procs : approvePutMarkdown(p)
    \/ \E p \in Procs : approvePutHtml(p)
    \/ \E p \in Procs : approveUpdate(p)
    \/ \E p \in Procs : approvePutIndex(p)
    \/ \E p \in Procs, user \in Users, id \in RequestIds, reason \in Reasons :
          adminRejectContribution(p, user, id, reason)
    \/ \E p \in Procs : rejectUpdate(p)
    \/ \E p \in Procs, user \in Users, id \in RequestIds, feedback \in Feedbacks :
          adminRequestChanges(p, user, id, feedback)
    \/ \E p \in Procs : requestChangesUpdate(p)
    \/ \E r \in BagToSet(runs) : reviewContribution(r)
    \/ \E r \in BagToSet(runs) : reviewGetObject(r)
    \/ \E r \in BagToSet(runs), decision \in Decisions : reviewCallClaude(r, decision)
    \/ \E r \in BagToSet(runs) : reviewUpdate(r)

\* the failures of the awaited operations
Faults ==
    \/ \E p \in Procs : createPutObjectThrows(p)
    \/ \E p \in Procs : createPutItemThrows(p)
    \/ \E p \in Procs : createInvokeThrows(p)
    \/ \E p \in Procs : updatePutObjectThrows(p)
    \/ \E p \in Procs : updateUpdateThrows(p)
    \/ \E p \in Procs : updateInvokeThrows(p)
    \/ \E p \in Procs : deleteUpdateThrows(p)
    \/ \E p \in Procs : approveGetObjectThrows(p)
    \/ \E p \in Procs : approvePutMarkdownThrows(p)
    \/ \E p \in Procs : approvePutHtmlThrows(p)
    \/ \E p \in Procs : approveUpdateThrows(p)
    \/ \E p \in Procs : approvePutIndexThrows(p)
    \/ \E p \in Procs : rejectUpdateThrows(p)
    \/ \E p \in Procs : requestChangesUpdateThrows(p)
    \/ \E r \in BagToSet(runs) : reviewThrows(r)

\* the handlers of both lambdas with every awaited operation succeeding,
\* within one reading of the clock
Spec == Init /\ [][Next]_vars

CsrfBody == [framework |-> "nextjs", category |-> "security", guideline |-> GuidelineCsrf]

\* the state Spec is in when createContribution(alice, CsrfBody) has returned
\* 201: the contribution is stored as pending and its review is queued
InitPending ==
    /\ table = Put(EmptyMap, ContribKey(1), NewItem(1, alice, CsrfBody, 1))
    /\ bucket = Put(EmptyMap, 1, CsrfBody)
    /\ guidelinesBucket = EmptyMap
    /\ websiteBucket = EmptyMap
    /\ calls = [p \in Procs |-> Idle]
    /\ runs = SetToBag({NewRun(1)})
    /\ response = json(201)
    /\ reviewerResponse = Null
    /\ nCalls = 0
    /\ clock = 1

\* the requests and reviews that follow the submission of one contribution
SpecPending == InitPending /\ [][Next]_vars

\* the state Spec is in when createContribution(alice, CsrfBody) and then
\* createContribution(mod, CsrfBody) have returned 201 and both reviews have
\* ended without a result
InitTwoPending ==
    /\ table = Put(Put(EmptyMap, ContribKey(1), NewItem(1, alice, CsrfBody, 1)),
                   ContribKey(2), NewItem(2, mod, CsrfBody, 1))
    /\ bucket = Put(Put(EmptyMap, 1, CsrfBody), 2, CsrfBody)
    /\ guidelinesBucket = EmptyMap
    /\ websiteBucket = EmptyMap
    /\ calls = [p \in Procs |-> Idle]
    /\ runs = EmptyBag
    /\ response = json(201)
    /\ reviewerResponse = Null
    /\ nCalls = 0
    /\ clock = 1

\* the requests that follow the submission of two contributions under one triple
SpecTwoPending == InitTwoPending /\ [][Next]_vars

\* the handlers while time passes between their readings of the clock
NextClock == Next \/ Tick
SpecClock == Init /\ [][NextClock]_vars

\* POST /v1/contributions alone, over the bodies of every set of failing
\* fields, with the refused requests answered; one submission is accepted
NextValidate ==
    \/ \E user \in Users, body \in ValidationBodies :
          createContributionRefuses(user, body)
    \/ \E p \in Procs, user \in Users, body \in ValidationBodies :
          nCalls = 0 /\ createContribution(p, user, body)
    \/ \E p \in Procs : createPutObject(p)
    \/ \E p \in Procs : createPutItem(p)
    \/ \E p \in Procs : createInvoke(p)
SpecValidate == Init /\ [][NextValidate]_vars

\* a step of an invocation of the reviewer for contribution id
ReviewerStep(id) ==
    \E r \in BagToSet(runs) :
        /\ r.contributionId = id
        /\ \/ reviewContribution(r)
           \/ reviewGetObject(r)
           \/ \E decision \in Decisions : reviewCallClaude(r, decision)
           \/ reviewUpdate(r)

\* the handlers with every queued invocation of the reviewer run to its end:
\* Lambda runs an asynchronous invocation (InvocationType "Event") once it is
\* queued
SpecLive == Init /\ [][Next]_vars /\ \A id \in 1..MaxCalls : WF_vars(ReviewerStep(id))

\* the same with the failures of the awaited operations
NextFaults == Next \/ Faults
SpecFaults == Init /\ [][NextFaults]_vars


(* ----------------------------------------------------------------- claims *)

\* the ids of the stored contributions
ContribIds == {k[2] : k \in {k \in DOMAIN table : k[1] = "CONTRIB"}}

\* the stored record of contribution id
Record(id) == table[ContribKey(id)]

\* published (approved), rejected and withdrawn
TerminalStatuses == {"approved", "rejected", "withdrawn"}

\* the statuses only a moderator's decision sets
ModeratorStatuses == {"approved", "rejected", "admin_needs_changes"}

\* C1: once the stored status of a contribution is approved, rejected or
\* withdrawn, no step of any handler changes it.
C1_TerminalAbsorbing ==
    [][\A id \in ContribIds :
          Record(id).status \in TerminalStatuses
             => /\ ContribKey(id) \in DOMAIN table'
                /\ table'[ContribKey(id)].status = Record(id).status]_vars

\* C2: the reviewer's result is never written over a status that a
\* moderator's decision has set since the reviewer read the record.
C2_StaleReviewNotWritten ==
    [][\A r \in BagToSet(runs) :
          reviewUpdate(r) => Record(r.contributionId).status \notin ModeratorStatuses]_vars

\* the status write of the moderate request in process p
ModerateCommits(p) == approveUpdate(p) \/ rejectUpdate(p) \/ requestChangesUpdate(p)

\* C3: of two moderate requests that read the same prior status only one
\* commits: a moderate request does not write its status once another
\* moderator's decision has replaced the status it read.
C3_OneModerateCommits ==
    [][\A p \in Procs :
          ModerateCommits(p)
             => ~ /\ Record(calls[p].id).status # calls[p].existing.status
                  /\ Record(calls[p].id).status \in ModeratorStatuses]_vars

\* C4: a revise and a reject that both read pending never both commit: no
\* record is a rejected contribution reset to pending.
C4_RejectedNotResetToPending ==
    \A id \in ContribIds :
        ~ (Record(id).status = "pending" /\ "rejectedBy" \in DOMAIN Record(id))

\* the (framework, category, slug) triple of contribution id
Triple(id) == <<Record(id).framework, Record(id).category, Record(id).slug>>

\* C5: at most one contribution of a (framework, category, slug) triple has
\* status approved.
C5_TripleUnique ==
    \A id1, id2 \in ContribIds :
        /\ Record(id1).status = "approved"
        /\ Record(id2).status = "approved"
        /\ Triple(id1) = Triple(id2)
        => id1 = id2

\* an approve request for contribution id is under way
Approving(id) ==
    \E p \in Procs : calls[p].pc # "idle" /\ calls[p].op = "adminApproveContribution"
                     /\ calls[p].id = id

\* C6: when no approve request is under way, a public document exists only
\* for a contribution whose status is approved, and every approved
\* contribution has its public document.
C6_PublicationAllOrNothing ==
    /\ \A path \in DOMAIN guidelinesBucket :
          LET id == guidelinesBucket[path].contributionId
          IN  ~Approving(id) => id \in ContribIds /\ Record(id).status = "approved"
    /\ \A id \in ContribIds :
          (~Approving(id) /\ Record(id).status = "approved")
             => \E path \in DOMAIN guidelinesBucket :
                   guidelinesBucket[path].contributionId = id

NonTerminalStatuses ==
    {"pending", "ai_approved", "ai_needs_changes", "ai_rejected", "admin_needs_changes"}

AutomatedStatuses == {"ai_approved", "ai_needs_changes", "ai_rejected"}

\* the (from, to) pairs of the transition table
Edges ==
    ({"pending"} \X AutomatedStatuses)
    \cup (({"pending"} \cup AutomatedStatuses) \X {"approved"})
    \cup (NonTerminalStatuses \X {"rejected"})
    \cup (({"pending"} \cup AutomatedStatuses) \X {"admin_needs_changes"})
    \cup ({"pending", "ai_needs_changes", "admin_needs_changes"} \X {"pending"})
    \cup (NonTerminalStatuses \X {"withdrawn"})

\* C7: every change of a contribution's stored status is an edge of the
\* transition table.
C7_OnlyTableEdges ==
    [][\A id \in ContribIds :
          (ContribKey(id) \in DOMAIN table'
             /\ table'[ContribKey(id)].status # Record(id).status)
          => <<Record(id).status, table'[ContribKey(id)].status>> \in Edges]_vars

\* user acts as the owner of the record item
IsOwner(user, item) == item.contributor.githubId = user.sub

\* the response is the InvalidState error
InvalidState(res) == res.statusCode = 400 /\ res.code = "INVALID_STATE"

\* C8: on a contribution whose status is approved, rejected or withdrawn,
\* every revise and withdraw of its owner and every approve, reject and
\* request-changes of a moderator is answered InvalidState, whatever its body,
\* and no request that goes on to write has read such a status.
C8_TerminalRefused ==
    /\ \A id \in ContribIds :
          Record(id).status \in TerminalStatuses
             => /\ \A user \in {u \in Users : IsOwner(u, Record(id))} :
                     /\ \A body \in Bodies :
                           InvalidState(updateContributionGuards(user, id, body))
                     /\ InvalidState(deleteContributionGuards(user, id))
                /\ \A user \in {u \in Users : isAdmin(u)} :
                     /\ InvalidState(adminApproveContributionGuards(user, id))
                     /\ InvalidState(adminRejectContributionGuards(user, id))
                     /\ \A feedback \in Feedbacks :
                           InvalidState(adminRequestChangesGuards(user, id, feedback))
    /\ \A p \in Procs :
          (calls[p].pc # "idle" /\ calls[p].op # "createContribution")
             => calls[p].existing.status \notin TerminalStatuses

\* C8 witness: alice's contribution is stored as approved, a process is free
\* to take the next request, and her revise and a moderator's request for
\* changes on it are answered InvalidState
C8_Witness ==
    \E id \in ContribIds, p \in Procs :
        /\ Record(id).status = "approved"
        /\ IsOwner(alice, Record(id))
        /\ Free(p)
        /\ InvalidState(updateContributionGuards(alice, id, CsrfBody))
        /\ InvalidState(adminRequestChangesGuards(mod, id, "please add an example"))

\* C9: the step in which a revise commits leaves the record pending with
\* review and adminReview null, and the stored payload is the payload of
\* that revise.
C9_ReviseResets ==
    [][\A p \in Procs :
          updateUpdate(p)
             => LET item == table'[ContribKey(calls[p].id)]
                IN  /\ item.status = "pending"
                    /\ item.review = Null
                    /\ Attr(item, "adminReview") = Null
                    /\ Get(bucket', calls[p].id) = calls[p].body]_vars

\* a revise of contribution id is under way
Revising(id) ==
    \E p \in Procs : calls[p].pc # "idle" /\ calls[p].op = "updateContribution"
                     /\ calls[p].id = id

\* C10: when no revise is under way, the review recorded on a contribution
\* was computed from the payload the contribution now has.
C10_ReviewOfCurrentPayload ==
    \A id \in ContribIds :
        (~Revising(id) /\ Record(id).review # Null)
           => Record(id).review.reviewed = Get(bucket, id)

\* C11: the owner's withdraw is accepted on every non-terminal status
\* (pending, ai_approved, ai_needs_changes, ai_rejected, admin_needs_changes).
C11_WithdrawFromNonTerminal ==
    \A id \in ContribIds :
        Record(id).status \in NonTerminalStatuses
           => \A user \in {u \in Users : IsOwner(u, Record(id))} :
                 deleteContributionGuards(user, id) = Passed

\* C12: a moderator's approve is accepted on pending and on every ai_*
\* status, ai_rejected included.
C12_ApproveFromAutomated ==
    \A id \in ContribIds :
        Record(id).status \in {"pending"} \cup AutomatedStatuses
           => \A user \in {u \in Users : u.username \in ADMIN_USERS} :
                 adminApproveContributionGuards(user, id) = Passed

ShortTitleBody ==
    [framework |-> "nextjs", category |-> "security", guideline |-> GuidelineShortTitle]

\* C13: a submit whose title has 3 characters is answered ValidationError
\* listing title, a submit without framework or category is answered
\* ValidationError, and neither goes on to write: no submit under way
\* carries such a body and no stored payload or record comes from one.
C13_InvalidSubmitRefused ==
    /\ \A user \in Users :
          /\ createContributionGuards(user, ShortTitleBody)
                = errorDetails(400, "VALIDATION_ERROR", <<"title">>)
          /\ \A body \in BodiesMissingField :
                createContributionGuards(user, body) = error(400, "VALIDATION_ERROR")
    /\ \A p \in Procs :
          (calls[p].pc # "idle" /\ calls[p].op = "createContribution")
             => calls[p].body \notin BodiesMissingField \cup {ShortTitleBody}
    /\ \A id \in DOMAIN bucket :
          bucket[id] \notin BodiesMissingField \cup {ShortTitleBody}
    /\ \A id \in ContribIds :
          Record(id).title # GuidelineShortTitle.title

\* C13 witness: with a contribution stored and a process free to take a
\* request, the submit with the 3-character title is answered ValidationError
\* and the stores hold nothing of it
C13_Witness ==
    /\ \E p \in Procs : Free(p)
    /\ nCalls < MaxCalls
    /\ ContribIds # {}
    /\ createContributionGuards(alice, ShortTitleBody)
          = errorDetails(400, "VALIDATION_ERROR", <<"title">>)
    /\ \A id \in DOMAIN bucket : bucket[id] # ShortTitleBody

\* an approve of the triple of body has returned 200: its index entry, the
\* last write of adminApproveContribution, is stored
PublishedTriple(body) ==
    GuidelineKey(body.framework, body.category, body.guideline.slug) \in DOMAIN table

C15_DispatchFailureTolerated ==
    [][\A p \in Procs :
          LET key == ContribKey(calls[p].id)
          IN  /\ (createPutItem(p) \/ updateUpdate(p))
                    => /\ table'[key].status = "pending"
                       /\ calls[p].id \in DOMAIN bucket'
              /\ (createInvokeThrows(p) \/ updateInvokeThrows(p))
                    => /\ response' = json(IF calls[p].op = "createContribution"
                                            THEN 201 ELSE 200)
                       /\ key \in DOMAIN table /\ table' = table
                       /\ calls[p].id \in DOMAIN bucket /\ bucket' = bucket
                       /\ runs' = runs]_vars

\* C15 witness: a submit has returned 201, its record is pending with its
\* payload stored, and no review of it is queued or running or has ever
\* returned
C15_Witness ==
    /\ response = json(201)
    /\ reviewerResponse = Null
    /\ nCalls = 1
    /\ \A p \in Procs : Free(p)
    /\ runs = EmptyBag
    /\ \E id \in ContribIds :
          /\ Record(id).status = "pending"
          /\ Record(id).review = Null
          /\ Get(bucket, id) = CsrfBody

\* C16: a reviewer run that fails (its payload read, the reviewer API, the
\* parsing of the answer or a store operation throws, or the payload is
\* missing) writes nothing: every store is left as it is, and a record that
\* nobody else has written since the run read it is still pending with review
\* null, so that a later run finds it reviewable.
C16_FailedReviewWritesNothing ==
    [][\A r \in BagToSet(runs) :
          (reviewThrows(r) \/ (reviewGetObject(r) /\ Get(bucket, r.contributionId) = Null))
             => /\ reviewerResponse' = ReviewError
                /\ table' = table /\ bucket' = bucket
                /\ guidelinesBucket' = guidelinesBucket /\ websiteBucket' = websiteBucket
                /\ r.pc # "queued" /\ Get(table, ContribKey(r.contributionId)) = r.meta
                      => /\ table'[ContribKey(r.contributionId)].status = "pending"
                         /\ table'[ContribKey(r.contributionId)].review = Null]_vars

\* C16 witness: the reviewer has returned an error, no run is left, and the
\* record is still pending with review null next to its payload
C16_Witness ==
    /\ reviewerResponse = ReviewError
    /\ runs = EmptyBag
    /\ \A p \in Procs : Free(p)
    /\ \E id \in ContribIds :
          /\ Record(id).status = "pending"
          /\ Record(id).review = Null
          /\ Get(bucket, id) = CsrfBody

Forbidden == error(403, "FORBIDDEN")

\* C17: whatever the status of a contribution, a revise or a withdraw by a
\* user who is not its owner (a moderator included) is answered
\* AuthorizationError (403 FORBIDDEN) whatever its body, and no revise or
\* withdraw under way was sent by anyone but the owner of the record it read.
C17_OnlyOwnerRevisesOrWithdraws ==
    /\ \A id \in ContribIds :
          \A user \in {u \in Users : u.sub # Record(id).contributor.githubId} :
              /\ \A body \in Bodies : updateContributionGuards(user, id, body) = Forbidden
              /\ deleteContributionGuards(user, id) = Forbidden
    /\ \A p \in Procs :
          (calls[p].pc # "idle" /\ calls[p].op \in {"updateContribution", "deleteContribution"})
             => calls[p].user.sub = calls[p].existing.contributor.githubId

\* C17 witness: alice's contribution is pending, a process is free to take a
\* request, and moderator mod's revise and withdraw of it are answered
\* AuthorizationError
C17_Witness ==
    \E id \in ContribIds, p \in Procs :
        /\ Record(id).contributor.githubId = alice.sub
        /\ Record(id).status = "pending"
        /\ Free(p)
        /\ nCalls < MaxCalls
        /\ updateContributionGuards(mod, id, CsrfBody) = Forbidden
        /\ deleteContributionGuards(mod, id) = Forbidden

ModerateOps == {"adminApproveContribution", "adminRejectContribution", "adminRequestChanges"}

\* C18: whatever the status of a contribution, an approve, a reject or a
\* request for changes by a user who is not listed in ADMIN_USERS (the owner
\* included) is answered AuthorizationError (403 FORBIDDEN) whatever its
\* body, and no moderate request under way was sent by such a user.
C18_OnlyModeratorModerates ==
    /\ \A id \in RequestIds :
          \A user \in {u \in Users : u.username \notin ADMIN_USERS} :
              /\ adminApproveContributionGuards(user, id) = Forbidden
              /\ adminRejectContributionGuards(user, id) = Forbidden
              /\ \A feedback \in Feedbacks :
                    adminRequestChangesGuards(user, id, feedback) = Forbidden
    /\ \A p \in Procs :
          (calls[p].pc # "idle" /\ calls[p].op \in ModerateOps)
             => calls[p].user.username \in ADMIN_USERS

\* C18 witness: alice's contribution has passed the automated review, a
\* process is free to take a request, and alice's own approve of it is
\* answered AuthorizationError
C18_Witness ==
    \E id \in ContribIds, p \in Procs :
        /\ Record(id).contributor.githubId = alice.sub
        /\ Record(id).status = "ai_approved"
        /\ Free(p)
        /\ nCalls < MaxCalls
        /\ adminApproveContributionGuards(alice, id) = Forbidden
        /\ adminRequestChangesGuards(alice, id, "please add an example") = Forbidden

\* C19: a moderator's request for changes with empty feedback is refused, on
\* a non-terminal contribution with a validation error, and none is under
\* way; with feedback, on a contribution in pending or ai_*, it is taken on,
\* and its write sets status admin_needs_changes and adminReview to the
\* feedback and the moderator's identity.
C19_RequestChangesNeedsFeedback ==
    [][/\ \A id \in ContribIds, user \in {u \in Users : u.username \in ADMIN_USERS} :
             /\ adminRequestChangesGuards(user, id, "") # Passed
             /\ Record(id).status \in NonTerminalStatuses
                   => adminRequestChangesGuards(user, id, "")
                         = error(400, "VALIDATION_ERROR")
             /\ Record(id).status \in {"pending"} \cup AutomatedStatuses
                   => adminRequestChangesGuards(user, id, "please add an example") = Passed
       /\ \A p \in Procs :
             /\ (calls[p].pc # "idle" /\ calls[p].op = "adminRequestChanges")
                   => calls[p].body.feedback # ""
             /\ requestChangesUpdate(p)
                   => LET item == table'[ContribKey(calls[p].id)]
                      IN  /\ item.status = "admin_needs_changes"
                          /\ item.adminReview.feedback = calls[p].body.feedback
                          /\ item.adminReview.requestedBy.username = calls[p].user.username]_vars

\* C19 witness: a contribution is stored as admin_needs_changes with the
\* moderator's feedback and identity, and a further request for changes
\* without feedback is answered with a validation error
C19_Witness ==
    \E id \in ContribIds :
        /\ Record(id).status = "admin_needs_changes"
        /\ Attr(Record(id), "adminReview") # Null
        /\ Record(id).adminReview.feedback = "please add an example"
        /\ Record(id).adminReview.requestedBy.username = "mod"
        /\ adminRequestChangesGuards(mod, id, "") = error(400, "VALIDATION_ERROR")

\* C20: a contribution carries a publishedPath exactly when its status is
\* approved.
C20_PublishedPathIffApproved ==
    \A id \in ContribIds :
        ("publishedPath" \in DOMAIN Record(id)) <=> (Record(id).status = "approved")

\* C21: every step that changes the status of a contribution leaves its
\* updatedAt greater than the value it replaced, also when two operations
\* commit in the opposite order to that in which they read the clock, and
\* createdAt never changes. Stated here in the weaker form "no smaller than
\* the value it replaced", which two commits within one reading of the clock
\* satisfy
C21_UpdatedAtAdvances ==
    [][\A id \in ContribIds :
          LET old == Record(id)
              new == Record(id)'
          IN  /\ new.createdAt = old.createdAt
              /\ new.status # old.status => new.updatedAt >= old.updatedAt]_vars

\* C22: validation is exhaustive and pure: in every state, whatever the stores
\* hold, the guideline with exactly the fields of F failing is accepted when F
\* is empty and otherwise refused with a validation error whose list has one
\* entry for each field of F and no other (all of them, not the first only);
\* and a step that answers with a validation error writes nothing
C22_ValidationExhaustive ==
    /\ [](\A user \in Users, F \in SUBSET Fields, v \in Variants :
            LET body == [framework |-> "nextjs", category |-> "security",
                         guideline |-> Payload(F, v)]
                res == createContributionGuards(user, body)
            IN  IF F = {}
                  THEN res = Passed
                  ELSE /\ res # Passed
                       /\ res.statusCode = 400
                       /\ res.code = "VALIDATION_ERROR"
                       /\ {res.details[i] : i \in DOMAIN res.details} = F
                       /\ Len(res.details) = Cardinality(F))
    /\ [][response' # response /\ response' # Null /\ response'.code = "VALIDATION_ERROR"
             => stores' = stores]_vars

\* a request with all seven fields failing has been refused while a
\* contribution is stored
C22_Witness ==
    /\ ContribIds # {}
    /\ response # Null
    /\ response.code = "VALIDATION_ERROR"
    /\ Len(response.details) = Cardinality(Fields)

\* C23: the write that completes a review sets status ai_approved for the
\* decision approve, ai_needs_changes for needs_changes and ai_rejected for
\* reject and stores the review in the same write; a reviewer response that
\* carries none of the three decisions causes no transition
C23_DecisionMapsToStatus ==
    [][\A r \in BagToSet(runs) :
          reviewUpdate(r) =>
              LET old == Record(r.contributionId)
                  new == Record(r.contributionId)'
                  decision == r.review.decision
              IN  /\ decision = "approve" => new.status = "ai_approved"
                  /\ decision = "needs_changes" => new.status = "ai_needs_changes"
                  /\ decision = "reject" => new.status = "ai_rejected"
                  /\ decision \in {"approve", "needs_changes", "reject"}
                        => new.review = r.review
                  /\ decision \notin {"approve", "needs_changes", "reject"}
                        => new.status = old.status]_vars

\* C24: a revise that does not commit leaves the payload exactly as it was:
\* when the ledger write of a revise fails, the stored payload still is the
\* one the record read by the revise describes (the payloads of the model
\* differ in their titles)
C24_FailedReviseKeepsPayload ==
    [][\A p \in Procs :
          updateUpdateThrows(p) =>
              bucket'[calls[p].id].guideline.title = calls[p].existing.title]_vars

\* the user who owns contribution id
Owner(id) == CHOOSE u \in Users : IsOwner(u, Record(id))

\* the answer of the guards to the operation op on contribution id, asked by
\* its owner (revise, withdraw) or by a moderator (approve, reject,
\* request-changes)
GuardsAnswer(op, id) ==
    CASE op = "revise" -> updateContributionGuards(Owner(id), id, CsrfBody)
      [] op = "withdraw" -> deleteContributionGuards(Owner(id), id)
      [] op = "approve" -> adminApproveContributionGuards(mod, id)
      [] op = "reject" -> adminRejectContributionGuards(mod, id)
      [] op = "requestChanges" ->
             adminRequestChangesGuards(mod, id, "please add an example")

\* C25: an InvalidState error of revise, withdraw or a moderator operation
\* carries the current status of the contribution as read by the operation:
\* the same operation refused with InvalidState on two contributions whose
\* statuses differ answers with two different errors
C25_InvalidStateCarriesStatus ==
    \A op \in {"revise", "withdraw", "approve", "reject", "requestChanges"} :
        \A id1, id2 \in ContribIds :
            (/\ Record(id1).status # Record(id2).status
             /\ InvalidState(GuardsAnswer(op, id1))
             /\ InvalidState(GuardsAnswer(op, id2)))
                => GuardsAnswer(op, id1) # GuardsAnswer(op, id2)

\* C26: the step in which an approve commits records as publishedPath the
\* path derived from the framework, category and slug held in the ledger
\* record of the contribution, and the public document is stored under that
\* path, whatever submit and revise preceded
C26_PublishedUnderOwnTriple ==
    [][\A p \in Procs :
          approveUpdate(p) =>
              LET rec == Record(calls[p].id)'
              IN  /\ rec.publishedPath = guidelinePath(rec.framework, rec.category, rec.slug)
                  /\ rec.publishedPath \in DOMAIN guidelinesBucket']_vars

C28_ReviseFromThreeStatuses ==
    /\ [](\A id \in ContribIds, body \in ReviseBodies :
            validateGuideline(body.guideline) = <<>> =>
                LET res == updateContributionGuards(Owner(id), id, body)
                IN  IF Record(id).status \in {"pending", "ai_needs_changes",
                                              "admin_needs_changes"}
                      THEN res = Passed
                      ELSE InvalidState(res))
    /\ [][\A p \in Procs :
            (updatePutObject(p) \/ updateUpdate(p)) =>
                calls[p].existing.status \in {"pending", "ai_needs_changes",
                                              "admin_needs_changes"}]_vars

\* a contribution is ai_rejected, a process is free to take the next request
\* and the revise of its owner is answered InvalidState
C28_Witness ==
    \E id \in ContribIds, p \in Procs :
        /\ Record(id).status = "ai_rejected"
        /\ Free(p)
        /\ InvalidState(updateContributionGuards(Owner(id), id, CsrfBody))

\* C29: on a contribution whose status is admin_needs_changes the approve and
\* the request-changes of a moderator are both answered InvalidState, and no
\* approve or request-changes that read that status writes
C29_NoModerationFromAdminNeedsChanges ==
    /\ \A id \in ContribIds :
          Record(id).status = "admin_needs_changes" =>
              /\ InvalidState(adminApproveContributionGuards(mod, id))
              /\ \A feedback \in Feedbacks \ {""} :
                    InvalidState(adminRequestChangesGuards(mod, id, feedback))
    /\ \A p \in Procs :
          (calls[p].pc # "idle"
             /\ calls[p].op \in {"adminApproveContribution", "adminRequestChanges"})
             => calls[p].existing.status # "admin_needs_changes"

\* C30: the reject of a moderator passes the guards on every contribution
\* whose status is not terminal, with or without a reason, and the write of a
\* reject sets status rejected, records the rejecting moderator and a reason
\* (the one sent, or a default when none was sent) and leaves the payload and
\* the review as they were
C30_RejectFromNonTerminal ==
    /\ [](\A id \in ContribIds :
            Record(id).status \in NonTerminalStatuses
               => adminRejectContributionGuards(mod, id) = Passed)
    /\ [][\A p \in Procs :
            rejectUpdate(p) =>
                LET id == calls[p].id
                    reason == calls[p].body.reason
                    old == Record(id)
                    new == table'[ContribKey(id)]
                IN  /\ new.status = "rejected"
                    /\ calls[p].user.username \in ADMIN_USERS
                    /\ new.rejectedBy.username = calls[p].user.username
                    /\ new.rejectionReason # ""
                    /\ reason # "" => new.rejectionReason = reason
                    /\ new.review = old.review
                    /\ bucket' = bucket
                    /\ response' = json(200)]_vars

\* a reviewed contribution has been rejected without a reason: the record
\* names the moderator and the default reason and still carries its review
C30_Witness ==
    \E id \in ContribIds :
        /\ Record(id).status = "rejected"
        /\ Record(id).rejectedBy.username = "mod"
        /\ Record(id).rejectionReason = "Does not meet quality standards"
        /\ Record(id).review # Null

\* the error code the guards of revise and withdraw must answer with: the
\* first failing one of existence, ownership, status, payload
OwnerOpCode(user, id, statuses, invalid) ==
    IF id \notin ContribIds THEN "NOT_FOUND"
    ELSE IF Record(id).contributor.githubId # user.sub THEN "FORBIDDEN"
    ELSE IF Record(id).status \notin statuses THEN "INVALID_STATE"
    ELSE IF invalid THEN "VALIDATION_ERROR"
    ELSE "PASSED"

\* the error code the guards of a moderator operation must answer with: the
\* first failing one of moderator capability, existence, status, body
ModerateCode(user, id, refused, invalid) ==
    IF user.username \notin ADMIN_USERS THEN "FORBIDDEN"
    ELSE IF id \notin ContribIds THEN "NOT_FOUND"
    ELSE IF Record(id).status \in refused THEN "INVALID_STATE"
    ELSE IF invalid THEN "VALIDATION_ERROR"
    ELSE "PASSED"

\* C31: the guards are evaluated in a fixed order and the first failing one
\* determines the error: for revise and withdraw existence, then ownership,
\* then status, then payload validation; for the moderator operations the
\* moderator capability, then existence, then status, and for request-changes
\* the feedback last
C31_GuardOrder ==
    \A user \in Users, id \in RequestIds :
        /\ \A body \in ReviseBodies :
              updateContributionGuards(user, id, body).code
                 = OwnerOpCode(user, id,
                               {"pending", "ai_needs_changes", "admin_needs_changes"},
                               validateGuideline(body.guideline) # <<>>)
        /\ deleteContributionGuards(user, id).code
              = OwnerOpCode(user, id, {"pending", "ai_needs_changes", "ai_approved"}, FALSE)
        /\ adminApproveContributionGuards(user, id).code
              = ModerateCode(user, id,
                             {"approved", "rejected", "withdrawn",
                              "ai_rejected", "admin_needs_changes"}, FALSE)
        /\ adminRejectContributionGuards(user, id).code
              = ModerateCode(user, id, {"approved", "rejected", "withdrawn"}, FALSE)
        /\ \A feedback \in Feedbacks :
              adminRequestChangesGuards(user, id, feedback).code
                 = ModerateCode(user, id, {"approved", "rejected", "withdrawn"},
                                feedback = "")

\* alice's contribution is terminal: the revise of another user on it is
\* answered FORBIDDEN, and a request for changes with empty feedback
\* INVALID_STATE
C31_Witness ==
    \E id \in ContribIds :
        /\ Record(id).status \in TerminalStatuses
        /\ IsOwner(alice, Record(id))
        /\ updateContributionGuards(mod, id, CsrfBody).code = "FORBIDDEN"
        /\ adminRequestChangesGuards(mod, id, "").code = "INVALID_STATE"

\* an invocation of the reviewer for contribution id is queued or running
ReviewUnderWay(id) == \E r \in BagToSet(runs) : r.contributionId = id

\* C32: when the reviewer has been dispatched for a pending contribution, the
\* contribution eventually leaves pending: for ai_approved, ai_needs_changes
\* or ai_rejected with a review stored, unless a withdraw or a moderator
\* operation took it elsewhere; and the step in which a submit or a revise
\* dispatches the reviewer returns the call with the invocation still queued
\* and the ledger untouched
C32_ReviewEventuallyLands ==
    /\ \A id \in 1..MaxCalls :
          (id \in ContribIds /\ Record(id).status = "pending" /\ ReviewUnderWay(id))
             ~> (/\ id \in ContribIds
                 /\ Record(id).status # "pending"
                 /\ Record(id).status \in AutomatedStatuses
                       => Attr(Record(id), "review") # Null)
    /\ [][\A p \in Procs :
            (createInvoke(p) \/ updateInvoke(p)) =>
                /\ calls'[p] = Idle
                /\ response'.statusCode \in {200, 201}
                /\ BagIn(NewRun(calls[p].id), runs')
                /\ table' = table]_vars

\* the review of a submitted contribution has landed: the submit has returned
\* 201, no invocation is left and the record carries the review
C32_Witness ==
    \E id \in ContribIds :
        /\ Record(id).status \in AutomatedStatuses
        /\ Record(id).review # Null
        /\ response = json(201)
        /\ reviewerResponse = Reviewed
        /\ runs = EmptyBag

\* C33: whenever a contribution has status approved, the public document at
\* its publishedPath is the one rendered from the payload now stored for that
\* contribution, also when a revise of the owner overlaps the approve
C33_PublishedIsPayload ==
    \A id \in ContribIds :
        (Record(id).status = "approved" /\ "publishedPath" \in DOMAIN Record(id))
           => LET payload == Get(bucket, id)
                  path == Record(id).publishedPath
              IN  /\ path \in DOMAIN guidelinesBucket
                  /\ guidelinesBucket[path].Body
                        = generateMarkdownFile(payload.framework, payload.category,
                                               payload.guideline, Record(id).contributor)

\* C34: the write of a withdraw changes only status and updatedAt of the
\* record: the record stays, with its owner, classification, review and
\* adminReview as they were, the payload is untouched, and get and the list of
\* the owner return the contribution with status withdrawn
C34_WithdrawIsSoftDelete ==
    [][\A p \in Procs, id \in ContribIds, user \in Users :
          (deleteUpdate(p) /\ calls[p].id = id /\ IsOwner(user, Record(id))) =>
              /\ ContribKey(id) \in DOMAIN table'
              /\ table'[ContribKey(id)]
                    = [Record(id) EXCEPT !.status = "withdrawn",
                                         !.updatedAt = calls[p].now]
              /\ bucket' = bucket
              /\ getContribution(user, id)'.statusCode = 200
              /\ getContribution(user, id)'.body.Item.status = "withdrawn"
              /\ getContribution(user, id)'.body.guideline = bucket[id].guideline
              /\ \E item \in listContributions(user)' :
                    item.id = id /\ item.status = "withdrawn"]_vars

\* a reviewed contribution of alice has been withdrawn: its record carries
\* the review and her list shows it as withdrawn
C34_Witness ==
    \E id \in ContribIds :
        /\ Record(id).status = "withdrawn"
        /\ Record(id).review # Null
        /\ response = json(200)
        /\ \E item \in listContributions(alice) : item.id = id /\ item.status = "withdrawn"

\* the (framework, category, slug) triple of the payload stored for
\* contribution id
PayloadTriple(id) ==
    <<bucket[id].framework, bucket[id].category, bucket[id].guideline.slug>>

\* C35: when no revise of a contribution is under way, its record and its
\* stored payload agree on the (framework, category, slug) triple,
\* also after a revise whose body names another framework, category or slug
C35_RecordAndPayloadAgree ==
    \A id \in ContribIds :
        (~Revising(id) /\ id \in DOMAIN bucket) => Triple(id) = PayloadTriple(id)

\* the triples that have an entry in the published index, which is what the
\* duplicate query of createContribution sees
IndexedTriples ==
    {<<k[2], k[3], k[4]>> : k \in {j \in DOMAIN table : j[1] = "GUIDELINE"}}

\* C36: when no approve is under way, a triple has an entry in the published
\* index exactly when some contribution of that triple has status approved
C36_IndexIsPublishedSet ==
    (\A id \in ContribIds : ~Approving(id))
       => IndexedTriples = {Triple(id) : id \in {i \in ContribIds : Record(i).status = "approved"}}

\* C37: every contribution record of the ledger has a payload stored under
\* its id, also after the failure of any single store write of a submit or a
\* revise
C37_RecordHasPayload ==
    \A id \in ContribIds : id \in DOMAIN bucket /\ bucket[id] # Null

\* the ledger write of a revise has failed and the request has been answered
\* 500: the record, still carrying the old title, has a payload
C37_Witness ==
    \E id \in ContribIds :
        /\ response = InternalError
        /\ \A p \in Procs : Free(p)
        /\ id \in DOMAIN bucket
        /\ bucket[id].guideline.title # Record(id).title

\* C38: no step changes the id, the contributor or the createdAt of a stored
\* contribution, and every record is stored under the key of its id: a user
\* other than the submitter never becomes its owner
C38_IdAndOwnerImmutable ==
    [][\A id \in ContribIds :
          /\ ContribKey(id) \in DOMAIN table'
          /\ table'[ContribKey(id)].id = id
          /\ table'[ContribKey(id)].id = Record(id).id
          /\ table'[ContribKey(id)].contributor = Record(id).contributor
          /\ table'[ContribKey(id)].createdAt = Record(id).createdAt]_vars

\* alice's contribution has been reviewed and then approved by the
\* moderator: it is still hers
C38_Witness ==
    \E id \in ContribIds :
        /\ Record(id).status = "approved"
        /\ Record(id).approvedBy.username = "mod"
        /\ Record(id).review # Null
        /\ Record(id).contributor = [githubId |-> alice.sub, username |-> alice.username]

====
